---- MODULE Spec2Model ----
(***************************************************************************)
(* A model of SimpleQubit (src/SimpleQubit.py) and of the calls its test   *)
(* suite (src/app.py) makes on it.                                         *)
(*                                                                         *)
(* Numbers are Python ints and floats.  A number is kept as a record       *)
(* [t |-> "num", kind |-> "int" | "float", tenths |-> n]: its value is     *)
(* n / 10, so 2 is PyInt(2) (tenths 20), 0.4 is PyFloat(4), and a length of    *)
(* the layout is a whole number of tenths.  Every Python value is a record *)
(* with a tag t, the JSON text is a tree of tokens whose numbers are       *)
(* literals (sequences of characters).                                     *)
(***************************************************************************)
EXTENDS Integers, Sequences, FiniteSets, TLC

VARIABLES
    q,        \* the SimpleQubit instance: its nine fields, layout and gds_library
    next_id,  \* the identity the next object gdspy allocates gets
    fs,       \* the files: name -> missing, unreadable or a file with its content
    ret       \* the last call: its name, argument, and what it returned or raised

vars == <<q, next_id, fs, ret>>

(***************************************************************************)
(* Bounds of the model.                                                    *)
(***************************************************************************)
MaxDim == 2
MaxWidth == 4
MaxLayer == 2
MaxDraws == 2
MaxNum == 1

(***************************************************************************)
(* Python values.                                                          *)
(***************************************************************************)
None == [t |-> "None"]
Num(kind, tenths) == [t |-> "num", kind |-> kind, tenths |-> tenths]
PyInt(n) == Num("int", 10 * n)
PyFloat(tenths) == Num("float", tenths)
Str(s) == [t |-> "str", s |-> s]
Bool(b) == [t |-> "bool", b |-> b]
\* A dict keeps its keys in insertion order.
Dict(keys, items) == [t |-> "dict", keys |-> keys, items |-> items]

Abs(n) == IF n < 0 THEN -n ELSE n
Min(a, b) == IF a <= b THEN a ELSE b
Max(a, b) == IF a >= b THEN a ELSE b

(***************************************************************************)
(* The nine parameters of __init__, and the four groups of the JSON        *)
(* document with their keys in the order to_json writes them.              *)
(***************************************************************************)
Params ==
    {"connection_radius", "junction_width", "junction_height", "junction_offset",
     "wire_width", "wire_height", "wire_layer", "junction_layer", "connection_layer"}

Groups == <<"junction", "wire", "connection", "layers">>

GroupKeys ==
    [junction |-> <<"junction_width", "junction_height", "junction_offset">>,
     wire |-> <<"wire_width", "wire_height">>,
     connection |-> <<"connection_radius">>,
     layers |-> <<"junction_layer", "wire_layer", "connection_layer">>]

Range(s) == {s[i] : i \in DOMAIN s}

(***************************************************************************)
(* SimpleQubit.__init__: each argument is stored in the field of its name, *)
(* the two caches start absent.  kw is the function of keyword arguments.  *)
(***************************************************************************)
SimpleQubit_init(kw) ==
    [t |-> "SimpleQubit",
     connection_radius |-> kw["connection_radius"],
     junction_width |-> kw["junction_width"],
     junction_height |-> kw["junction_height"],
     wire_width |-> kw["wire_width"],
     wire_height |-> kw["wire_height"],
     junction_offset |-> kw["junction_offset"],
     wire_layer |-> kw["wire_layer"],
     connection_layer |-> kw["connection_layer"],
     junction_layer |-> kw["junction_layer"],
     layout |-> None,
     gds_library |-> None]

(***************************************************************************)
(* json.dumps / json.loads.  A JSON text is a tree of tokens:              *)
(*   [j |-> "obj", members |-> <<[k |-> key, v |-> text], ...>>]           *)
(*   [j |-> "num", lit |-> <<"-", "2", ".", "5">>]                         *)
(*   [j |-> "str", s |-> ...], [j |-> "true"], [j |-> "null"]              *)
(*   [j |-> "malformed"]: a text json.loads cannot parse.                  *)
(***************************************************************************)
DigitChars == <<"0", "1", "2", "3", "4", "5", "6", "7", "8", "9">>

RECURSIVE Digits(_)
Digits(n) ==
    IF n < 10 THEN <<DigitChars[n + 1]>>
    ELSE Digits(n \div 10) \o <<DigitChars[(n % 10) + 1]>>

\* int.__repr__ and float.__repr__, as json.dumps writes a number.
NumberLiteral(x) ==
    LET a == Abs(x.tenths)
        sign == IF x.tenths < 0 THEN <<"-">> ELSE <<>>
    IN  IF x.kind = "int"
        THEN sign \o Digits(a \div 10)
        ELSE sign \o Digits(a \div 10) \o <<".">> \o Digits(a % 10)

JObj(members) == [j |-> "obj", members |-> members]
JNum(lit) == [j |-> "num", lit |-> lit]
JStr(s) == [j |-> "str", s |-> s]
JTrue == [j |-> "true"]
JNull == [j |-> "null"]
Malformed == [j |-> "malformed"]

RECURSIVE dumps(_)
dumps(v) ==
    CASE v.t = "num" -> JNum(NumberLiteral(v))
      [] v.t = "str" -> JStr(v.s)
      [] v.t = "bool" -> JTrue
      [] v.t = "None" -> JNull
      [] v.t = "dict" ->
            JObj([i \in DOMAIN v.keys |-> [k |-> v.keys[i], v |-> dumps(v.items[v.keys[i]])]])

DigitVal(c) == CHOOSE d \in 0..9 : DigitChars[d + 1] = c

RECURSIVE ParseNat(_)
ParseNat(s) ==
    IF s = <<>> THEN 0
    ELSE 10 * ParseNat(SubSeq(s, 1, Len(s) - 1)) + DigitVal(s[Len(s)])

\* The number a literal denotes: an int without a ".", a float with one.
ParseNumber(lit) ==
    LET neg == lit[1] = "-"
        body == IF neg THEN Tail(lit) ELSE lit
        dots == {i \in DOMAIN body : body[i] = "."}
    IN  IF dots = {}
        THEN Num("int", (IF neg THEN -10 ELSE 10) * ParseNat(body))
        ELSE LET d == CHOOSE i \in dots : TRUE
                 whole == ParseNat(SubSeq(body, 1, d - 1))
                 frac == ParseNat(SubSeq(body, d + 1, d + 1))
             IN  Num("float", (IF neg THEN -1 ELSE 1) * (10 * whole + frac))

\* Whether json.loads parses the text (no malformed part anywhere in it).
RECURSIVE Parses(_)
Parses(text) ==
    CASE text.j = "malformed" -> FALSE
      [] text.j = "obj" -> \A i \in DOMAIN text.members : Parses(text.members[i].v)
      [] OTHER -> TRUE

RECURSIVE FirstKeys(_)
FirstKeys(m) ==
    IF m = <<>> THEN <<>>
    ELSE LET r == FirstKeys(SubSeq(m, 1, Len(m) - 1))
             k == m[Len(m)].k
         IN  IF k \in Range(r) THEN r ELSE Append(r, k)

\* json.loads of a text that parses: an object becomes a dict, in which the
\* last of several members of one key is the one kept.
RECURSIVE loads(_)
loads(text) ==
    CASE text.j = "num" -> ParseNumber(text.lit)
      [] text.j = "str" -> Str(text.s)
      [] text.j = "true" -> Bool(TRUE)
      [] text.j = "null" -> None
      [] text.j = "obj" ->
            LET m == text.members
                keys == {m[i].k : i \in DOMAIN m}
                last(k) == CHOOSE i \in DOMAIN m :
                              m[i].k = k /\ \A i2 \in DOMAIN m : m[i2].k = k => i2 <= i
            IN  Dict(FirstKeys(m), [k \in keys |-> loads(m[last(k)].v)])

(***************************************************************************)
(* get_json_schema, and jsonschema's validate for the keywords it uses:    *)
(* type, properties, required.                                             *)
(***************************************************************************)
NumberSchema == [type |-> "number"]

\* Mutant of get_json_schema: wire_height is left out of wire's required keys.
get_json_schema_WireHeightOptional ==
    [type |-> "object",
     properties |->
        [junction |->
            [type |-> "object",
             properties |-> [junction_width |-> NumberSchema,
                             junction_height |-> NumberSchema,
                             junction_offset |-> NumberSchema],
             required |-> {"junction_width", "junction_height", "junction_offset"}],
         wire |->
            [type |-> "object",
             properties |-> [wire_width |-> NumberSchema,
                             wire_height |-> NumberSchema],
             required |-> {"wire_width"}],
         connection |->
            [type |-> "object",
             properties |-> [connection_radius |-> NumberSchema],
             required |-> {"connection_radius"}],
         layers |->
            [type |-> "object",
             properties |-> [junction_layer |-> NumberSchema,
                             connection_layer |-> NumberSchema,
                             wire_layer |-> NumberSchema],
             required |-> {"junction_layer", "connection_layer", "wire_layer"}]],
     required |-> {"junction", "wire", "connection", "layers"}]

get_json_schema ==
    [type |-> "object",
     properties |->
        [junction |->
            [type |-> "object",
             properties |-> [junction_width |-> NumberSchema,
                             junction_height |-> NumberSchema,
                             junction_offset |-> NumberSchema],
             required |-> {"junction_width", "junction_height", "junction_offset"}],
         wire |->
            [type |-> "object",
             properties |-> [wire_width |-> NumberSchema,
                             wire_height |-> NumberSchema],
             required |-> {"wire_width", "wire_height"}],
         connection |->
            [type |-> "object",
             properties |-> [connection_radius |-> NumberSchema],
             required |-> {"connection_radius"}],
         layers |->
            [type |-> "object",
             properties |-> [junction_layer |-> NumberSchema,
                             connection_layer |-> NumberSchema,
                             wire_layer |-> NumberSchema],
             required |-> {"junction_layer", "connection_layer", "wire_layer"}]],
     required |-> {"junction", "wire", "connection", "layers"}]

\* jsonschema's types: a bool is no "number", a dict is an "object".
IsType(inst, type) ==
    CASE type = "number" -> inst.t = "num"
      [] type = "object" -> inst.t = "dict"
      [] OTHER -> FALSE

RECURSIVE validate(_, _)
validate(inst, schema) ==
    /\ "type" \in DOMAIN schema => IsType(inst, schema.type)
    /\ ("required" \in DOMAIN schema /\ inst.t = "dict")
          => schema.required \subseteq DOMAIN inst.items
    /\ ("properties" \in DOMAIN schema /\ inst.t = "dict")
          => \A p \in DOMAIN schema.properties \cap DOMAIN inst.items :
                validate(inst.items[p], schema.properties[p])

(***************************************************************************)
(* to_json: the nested dict of the nine fields, and its JSON text.         *)
(***************************************************************************)
\* Mutant of to_json_data: wire_width and junction_width written under each
\* other's key.
to_json_data_Swapped(self) ==
    Dict(<<"junction", "wire", "connection", "layers">>,
         [junction |->
             Dict(<<"junction_width", "junction_height", "junction_offset">>,
                  [junction_width |-> self.wire_width,
                   junction_height |-> self.junction_height,
                   junction_offset |-> self.junction_offset]),
          wire |->
             Dict(<<"wire_width", "wire_height">>,
                  [wire_width |-> self.junction_width,
                   wire_height |-> self.wire_height]),
          connection |->
             Dict(<<"connection_radius">>,
                  [connection_radius |-> self.connection_radius]),
          layers |->
             Dict(<<"junction_layer", "wire_layer", "connection_layer">>,
                  [junction_layer |-> self.junction_layer,
                   wire_layer |-> self.wire_layer,
                   connection_layer |-> self.connection_layer])])

to_json_data(self) ==
    Dict(<<"junction", "wire", "connection", "layers">>,
         [junction |->
             Dict(<<"junction_width", "junction_height", "junction_offset">>,
                  [junction_width |-> self.junction_width,
                   junction_height |-> self.junction_height,
                   junction_offset |-> self.junction_offset]),
          wire |->
             Dict(<<"wire_width", "wire_height">>,
                  [wire_width |-> self.wire_width,
                   wire_height |-> self.wire_height]),
          connection |->
             Dict(<<"connection_radius">>,
                  [connection_radius |-> self.connection_radius]),
          layers |->
             Dict(<<"junction_layer", "wire_layer", "connection_layer">>,
                  [junction_layer |-> self.junction_layer,
                   wire_layer |-> self.wire_layer,
                   connection_layer |-> self.connection_layer])])

to_json_string(self) == dumps(to_json_data(self))

(***************************************************************************)
(* A call's outcome: the value returned, or the exception raised.          *)
(***************************************************************************)
Return(v) == [exc |-> "", value |-> v]
Raise(e) == [exc |-> e, value |-> None]

\* cls(**a, **b, **c, **d): the keywords of the four dicts are merged (a key
\* given twice is a TypeError), then bound to the parameters of __init__ (an
\* unknown keyword or a missing argument is a TypeError).
Construct(dicts) ==
    LET given == UNION {DOMAIN dicts[i].items : i \in DOMAIN dicts}
        twice == \E i, i2 \in DOMAIN dicts :
                    i < i2 /\ DOMAIN dicts[i].items \cap DOMAIN dicts[i2].items # {}
        owner(k) == CHOOSE i \in DOMAIN dicts : k \in DOMAIN dicts[i].items
    IN  IF twice \/ given # Params
        THEN Raise("TypeError")
        ELSE Return(SimpleQubit_init([k \in Params |-> dicts[owner(k)].items[k]]))

\* from_json: json.loads is outside the try, the ValidationError is caught.
from_json(json_string) ==
    IF ~Parses(json_string) THEN Raise("JSONDecodeError")
    ELSE LET data == loads(json_string)
         IN  IF ~validate(data, get_json_schema)
             THEN Return(None)
             ELSE Construct(<<data.items["junction"], data.items["wire"],
                              data.items["connection"], data.items["layers"]>>)

(***************************************************************************)
(* draw.  Lengths and coordinates are tenths.  The library and its two     *)
(* cells are new objects, with the identities id, id + 1 and id + 2.       *)
(***************************************************************************)
Rectangle(p1, p2, layer) ==
    [shape |-> "Rectangle", p1 |-> p1, p2 |-> p2, layer |-> layer]
Round(center, radius, layer) ==
    [shape |-> "Round", p1 |-> center, radius |-> radius, layer |-> layer]
CellReference(ref_cell, origin, rotation) ==
    [ref_cell |-> ref_cell, origin |-> origin, rotation |-> rotation]
Cell(id, name, polygons, references) ==
    [t |-> "Cell", id |-> id, name |-> name, polygons |-> polygons,
     references |-> references]
GdsLibrary(id, cells) == [t |-> "GdsLibrary", id |-> id, cells |-> cells]

\* Mutant of WireConnection: the circle is put on the wire's layer.
WireConnection_OneLayer(self, id) ==
    LET w == Rectangle(<<0, 0>>, <<self.wire_width.tenths, self.wire_height.tenths>>,
                       self.wire_layer)
        c == Round(<<0, self.wire_height.tenths>>, self.connection_radius.tenths,
                   self.wire_layer)
    IN  Cell(id, "WIRE_CONNECTION", <<c, w>>, <<>>)

\* Mutant of WireConnection: the two layers are exchanged.
WireConnection_SwappedLayers(self, id) ==
    LET w == Rectangle(<<0, 0>>, <<self.wire_width.tenths, self.wire_height.tenths>>,
                       self.connection_layer)
        c == Round(<<0, self.wire_height.tenths>>, self.connection_radius.tenths,
                   self.wire_layer)
    IN  Cell(id, "WIRE_CONNECTION", <<c, w>>, <<>>)

\* repeated_component: the wire rectangle and the connection circle.
WireConnection(self, id) ==
    LET w == Rectangle(<<0, 0>>, <<self.wire_width.tenths, self.wire_height.tenths>>,
                       self.wire_layer)
        c == Round(<<0, self.wire_height.tenths>>, self.connection_radius.tenths,
                   self.connection_layer)
    IN  Cell(id, "WIRE_CONNECTION", <<c, w>>, <<>>)

Junction(self) ==
    Rectangle(<<0, 0>>, <<self.junction_width.tenths, self.junction_height.tenths>>,
              self.junction_layer)

Wc1(self, repeated_component) ==
    CellReference(repeated_component,
                  <<0 + self.junction_offset.tenths, self.junction_height.tenths>>, 0)

\* Mutant of Wc2: the offset is added to the width, not taken from it.
Wc2_PlusOffset(self, repeated_component) ==
    CellReference(repeated_component,
                  <<self.junction_width.tenths + self.junction_offset.tenths, 0>>, 180)

Wc2(self, repeated_component) ==
    CellReference(repeated_component,
                  <<self.junction_width.tenths - self.junction_offset.tenths, 0>>, 180)

\* Mutant of draw: a second draw adds to the cells of the cached library.
draw_Accumulating(self, id) ==
    LET old == self.layout # None
        repeated_component ==
            IF old THEN self.gds_library.cells["WIRE_CONNECTION"]
            ELSE WireConnection(self, id + 2)
        circuit ==
            Cell(IF old THEN self.layout.id ELSE id + 1, "CIRCUIT",
                 (IF old THEN self.layout.polygons ELSE <<>>) \o <<Junction(self)>>,
                 (IF old THEN self.layout.references ELSE <<>>) \o
                    <<Wc1(self, repeated_component), Wc2(self, repeated_component)>>)
        library == GdsLibrary(IF old THEN self.gds_library.id ELSE id,
                              [CIRCUIT |-> circuit, WIRE_CONNECTION |-> repeated_component])
    IN  [self EXCEPT !.gds_library = library, !.layout = circuit]

\* The instance after draw(): both caches replaced.
draw(self, id) ==
    LET repeated_component == WireConnection(self, id + 2)
        circuit == Cell(id + 1, "CIRCUIT", <<Junction(self)>>,
                        <<Wc1(self, repeated_component), Wc2(self, repeated_component)>>)
        library == GdsLibrary(id, [CIRCUIT |-> circuit,
                                   WIRE_CONNECTION |-> repeated_component])
    IN  [self EXCEPT !.gds_library = library, !.layout = circuit]

\* gdspy's CellReference: the referenced polygons rotated about the origin,
\* then moved to the reference's origin.  A copy keeps its class.
Rotate(p, rotation) == IF rotation = 180 THEN <<-p[1], -p[2]>> ELSE p
Place(p, ref) ==
    LET r == Rotate(p, ref.rotation)
    IN  <<r[1] + ref.origin[1], r[2] + ref.origin[2]>>
Transformed(poly, ref) ==
    IF poly.shape = "Rectangle"
    THEN [poly EXCEPT !.p1 = Place(poly.p1, ref), !.p2 = Place(poly.p2, ref)]
    ELSE [poly EXCEPT !.p1 = Place(poly.p1, ref)]

RECURSIVE Concat(_)
Concat(ss) == IF ss = <<>> THEN <<>> ELSE Head(ss) \o Concat(Tail(ss))

\* Cell.get_polygonsets: the cell's own polygons, then those of each reference.
RECURSIVE CellPolygonsets(_)
CellPolygonsets(cell) ==
    cell.polygons \o
    Concat([i \in DOMAIN cell.references |->
              LET ref == cell.references[i]
                  inner == CellPolygonsets(ref.ref_cell)
              IN  [n \in DOMAIN inner |-> Transformed(inner[n], ref)]])

\* Cell.get_layers.
CellLayers(cell) == {p.layer : p \in Range(CellPolygonsets(cell))}

(***************************************************************************)
(* Files.  A file the process may not open is "denied".  What write_gds    *)
(* and write_svg leave in a file is no JSON text.                          *)
(***************************************************************************)
Missing == [f |-> "missing"]
Denied == [f |-> "denied"]
File(content) == [f |-> "file", content |-> content]

GdsContent(library) ==
    [j |-> "malformed", fmt |-> "gds", cells |-> DOMAIN library.cells]
SvgContent(cell) ==
    [j |-> "malformed", fmt |-> "svg", cells |-> {cell.name}]

\* The state an operation leaves: the instance, the allocator, the files, and
\* the operation's outcome.
After(self, id, files, out) ==
    [self |-> self, next_id |-> id, fs |-> files, out |-> out]

\* open(filename, "w") and write: PermissionError on a denied file.
Written(self, id, files, filename, content, value) ==
    IF files[filename].f = "denied"
    THEN After(self, id, files, Raise("PermissionError"))
    ELSE After(self, id, [files EXCEPT ![filename] = File(content)], Return(value))

\* "not x" of an attribute that is None or a gdspy object (always true-ish).
Not(x) == x.t = "None"

draw_call(self, id, files) ==
    LET drawn == draw(self, id)
    IN  After(drawn, id + 3, files, Return(drawn.layout))

to_gds(self, id, files, filename) ==
    LET s == IF Not(self.gds_library) THEN draw_call(self, id, files)
             ELSE After(self, id, files, Return(None))
    IN  Written(s.self, s.next_id, files, filename, GdsContent(s.self.gds_library), None)

\* Mutant of to_svg: the figure is drawn again on every call.
to_svg_AlwaysDraws(self, id, files, filename) ==
    LET s == draw_call(self, id, files)
    IN  Written(s.self, s.next_id, files, filename, SvgContent(s.self.layout), None)

to_svg(self, id, files, filename) ==
    LET s == IF Not(self.layout) THEN draw_call(self, id, files)
             ELSE After(self, id, files, Return(None))
    IN  Written(s.self, s.next_id, files, filename, SvgContent(s.self.layout), None)

List(items) == [t |-> "list", items |-> items]

get_polygonsets(self, id, files) ==
    LET s == IF Not(self.layout) THEN draw_call(self, id, files)
             ELSE After(self, id, files, Return(None))
    IN  After(s.self, s.next_id, files, Return(List(CellPolygonsets(s.self.layout))))

\* to_json(filename): filename is None or Str(name).
to_json(self, id, files, filename) ==
    LET json_string == to_json_string(self)
    IN  IF filename.t = "None"
        THEN After(self, id, files, Return(Str(json_string)))
        ELSE Written(self, id, files, filename.s, json_string, Str(json_string))

\* from_json_file: the handler formats json_file, a name the with statement
\* binds only once open() has returned.
from_json_file(self, id, files, filename) ==
    LET opened == files[filename].f = "file"
        json_file_bound == opened
        handler == IF json_file_bound THEN Return(None) ELSE Raise("UnboundLocalError")
        inner == from_json(files[filename].content)
    IN  After(self, id, files,
              IF ~opened THEN handler
              ELSE IF inner.exc # "" THEN handler
              ELSE inner)

\* The attributes a SimpleQubit instance has.
Attributes ==
    {"draw", "to_gds", "to_svg", "get_polygonsets", "get_json_schema", "to_json",
     "from_json", "from_json_file", "layout", "gds_library"} \cup Params

(***************************************************************************)
(* Actions: one per call.                                                  *)
(***************************************************************************)
Call(op, arg, s) ==
    /\ q' = s.self
    /\ next_id' = s.next_id
    /\ fs' = s.fs
    /\ ret' = [op |-> op, arg |-> arg, exc |-> s.out.exc, value |-> s.out.value]

Draw ==
    /\ next_id < 3 * MaxDraws
    /\ Call("draw", None, draw_call(q, next_id, fs))

ToGds(filename) == Call("to_gds", Str(filename), to_gds(q, next_id, fs, filename))

ToSvg(filename) == Call("to_svg", Str(filename), to_svg(q, next_id, fs, filename))

GetPolygonsets == Call("get_polygonsets", None, get_polygonsets(q, next_id, fs))

ToJson(filename) == Call("to_json", filename, to_json(q, next_id, fs, filename))

FromJson(json_string) ==
    Call("from_json", Str(json_string), After(q, next_id, fs, from_json(json_string)))

FromJsonFile(filename) ==
    Call("from_json_file", Str(filename), from_json_file(q, next_id, fs, filename))

\* q.serialize(filename): the attribute lookup.
Serialize(filename) ==
    /\ "serialize" \notin Attributes
    /\ Call("serialize", Str(filename), After(q, next_id, fs, Raise("AttributeError")))

(***************************************************************************)
(* The instances and the texts the calls are made on.                      *)
(***************************************************************************)
Filenames == {"output.gds", "output.svg", "output.json", "first_test.json"}
JsonFilenames == {"output.json", "first_test.json"}

NoCall == [op |-> "", arg |-> None, exc |-> "", value |-> None]

\* The instance of the test suite's setUpClass (and of __main__).
TestQubit ==
    SimpleQubit_init(
        [connection_radius |-> PyFloat(40), junction_width |-> PyFloat(20),
         junction_height |-> PyFloat(4), junction_offset |-> PyFloat(2),
         wire_width |-> PyFloat(3), wire_height |-> PyFloat(100),
         wire_layer |-> PyInt(1), junction_layer |-> PyInt(2),
         connection_layer |-> PyInt(0)])

\* The test instance with any three layers, distinct or not.
LayerVariants ==
    {[TestQubit EXCEPT !.wire_layer = PyInt(w), !.junction_layer = PyInt(j),
                       !.connection_layer = PyInt(c)] :
        w \in 0..MaxLayer, j \in 0..MaxLayer, c \in 0..MaxLayer}

\* The test instance with any positive dimensions and any offset from 0 on.
DimVariants ==
    {[TestQubit EXCEPT !.connection_radius = PyFloat(d[1]),
                       !.junction_height = PyFloat(d[2]),
                       !.wire_width = PyFloat(d[3]),
                       !.wire_height = PyFloat(d[4]),
                       !.junction_width = PyFloat(jw),
                       !.junction_offset = PyFloat(off)] :
        d \in [1..4 -> 1..MaxDim], jw \in 1..MaxWidth, off \in 0..MaxWidth}

Init ==
    /\ q \in LayerVariants \cup DimVariants
    /\ next_id = 0
    /\ fs = [f \in Filenames |-> Missing]
    /\ ret = NoCall

Next ==
    \/ Draw
    \/ ToGds("output.gds")
    \/ ToSvg("output.svg")
    \/ GetPolygonsets

Spec == Init /\ [][Next]_vars

(***************************************************************************)
(* The JSON texts from_json is called on: the text to_json gives, and that *)
(* text with one thing changed.                                            *)
(***************************************************************************)
Member(k, v) == [k |-> k, v |-> v]
ValueOf(obj, k) == obj.members[CHOOSE i \in DOMAIN obj.members : obj.members[i].k = k].v
WithoutKey(obj, k) == JObj(SelectSeq(obj.members, LAMBDA m : m.k # k))
WithValue(obj, k, v) ==
    JObj([i \in DOMAIN obj.members |->
            IF obj.members[i].k = k THEN Member(k, v) ELSE obj.members[i]])
WithMember(obj, k, v) == JObj(Append(obj.members, Member(k, v)))

GroupNames == Range(Groups)
Seven == JNum(<<"7">>)
NonNumbers == {JStr("2.0"), JTrue, JNull, JObj(<<>>)}

MissingGroupTexts(b) == {WithoutKey(b, g) : g \in GroupNames}
MissingKeyTexts(b) ==
    UNION {{WithValue(b, g, WithoutKey(ValueOf(b, g), k)) : k \in Range(GroupKeys[g])} :
             g \in GroupNames}
NonNumberTexts(b) ==
    UNION {{WithValue(b, g, WithValue(ValueOf(b, g), k, v)) :
               k \in Range(GroupKeys[g]), v \in NonNumbers} : g \in GroupNames}
NonObjectGroupTexts(b) == {WithValue(b, g, v) : g \in GroupNames, v \in {JNull, Seven}}
\* An extra key at the top level.
ExtraTopTexts(b) == {WithMember(b, "name", v) : v \in {JStr("qubit"), Seven}}
\* An extra member in a group: an unknown key, a key of another group, or a
\* second member of one of the group's own keys.
ExtraInGroupTexts(b) ==
    {WithValue(b, g, WithMember(ValueOf(b, g), k, Seven)) :
        g \in GroupNames, k \in {"note"} \cup Params}
OtherTexts == {Seven, JNull, JObj(<<>>), Malformed}

Texts(self) ==
    LET b == to_json_string(self)
    IN  {b} \cup MissingGroupTexts(b) \cup MissingKeyTexts(b) \cup NonNumberTexts(b)
        \cup NonObjectGroupTexts(b) \cup ExtraTopTexts(b) \cup ExtraInGroupTexts(b)
        \cup OtherTexts

\* What another process may leave under a file name.
ForeignFiles(self) ==
    LET b == to_json_string(self)
    IN  {Missing, Denied, File(Malformed),
         File(WithValue(b, "wire", WithoutKey(ValueOf(b, "wire"), "wire_width"))),
         File(WithMember(b, "name", JStr("qubit")))}

DimFields ==
    {"connection_radius", "junction_width", "junction_height", "junction_offset",
     "wire_width", "wire_height"}

\* The test instance, and the test instance with one dimension zero or negative.
CodecQubits ==
    {TestQubit} \cup
    {[TestQubit EXCEPT ![f] = v] :
        f \in DimFields,
        v \in {PyInt(-n) : n \in 0..MaxNum} \cup {PyFloat(-(10 * n + 5)) : n \in 0..MaxNum}}

InitCodec ==
    /\ q \in CodecQubits
    /\ next_id = 0
    /\ fs = [f \in Filenames |-> Missing]
    /\ ret = NoCall

\* from_json on each of the texts.
NextSchema == \E json_string \in Texts(q) : FromJson(json_string)

SpecSchema == InitCodec /\ [][NextSchema]_vars

\* Another process replaces, removes or locks a JSON file.
EnvFile(filename, file) ==
    /\ fs' = [fs EXCEPT ![filename] = file]
    /\ UNCHANGED <<q, next_id, ret>>

NextFiles ==
    \/ \E filename \in {None} \cup {Str(f) : f \in JsonFilenames} : ToJson(filename)
    \/ \E filename \in JsonFilenames : FromJsonFile(filename)
    \/ \E filename \in JsonFilenames : Serialize(filename)
    \/ \E filename \in JsonFilenames, file \in ForeignFiles(q) : EnvFile(filename, file)

SpecFiles == InitCodec /\ [][NextFiles]_vars

\* Instances whose nine fields take two values, an int and a float, in every
\* arrangement.
IntNumbers == {PyInt(n) : n \in (-MaxNum)..MaxNum}
FloatNumbers == {PyFloat(x) : x \in {4, 10 * MaxNum, -(10 * MaxNum + 5), 120 + MaxNum}}

RoundTripQubits ==
    {SimpleQubit_init(kw) :
        kw \in UNION {[Params -> {a, b}] : a \in IntNumbers, b \in FloatNumbers}}

InitRoundTrip ==
    /\ q \in RoundTripQubits
    /\ next_id = 0
    /\ fs = [f \in Filenames |-> Missing]
    /\ ret = NoCall

\* from_json is called on the string the last to_json returned.
NextRoundTrip ==
    \/ \E filename \in {None, Str("output.json")} : ToJson(filename)
    \/ /\ ret.op = "to_json" /\ ret.exc = ""
       /\ FromJson(ret.value.s)
    \/ FromJsonFile("output.json")

SpecRoundTrip == InitRoundTrip /\ [][NextRoundTrip]_vars

(***************************************************************************)
(* Properties of the JSON codec.                                           *)
(***************************************************************************)
IsQubit(v) == v.t = "SimpleQubit"

\* C1: from_json of the string to_json gives for the instance returns an
\* instance, not None, whose nine fields are those of the instance.
RoundTrip ==
    (ret.op = "from_json" /\ ret.arg = Str(to_json_string(q))) =>
        /\ ret.exc = ""
        /\ IsQubit(ret.value)
        /\ \A f \in Params : ret.value[f] = q[f]

RoundTripWitness ==
    /\ ret.op = "from_json" /\ ret.arg = Str(to_json_string(q))
    /\ IsQubit(ret.value)
    /\ q.wire_width = PyFloat(-(10 * MaxNum + 5))
    /\ q.junction_width = PyInt(-MaxNum)
    /\ q.wire_layer = PyInt(-MaxNum)
    /\ q.connection_layer = PyFloat(-(10 * MaxNum + 5))

\* What a loaded document may lack, for the schema.
GroupsOf(data) == {g \in GroupNames : g \in DOMAIN data.items /\ data.items[g].t = "dict"}
LacksGroup(data) == \E g \in GroupNames : g \notin DOMAIN data.items
LacksKey(data) ==
    \E g \in GroupsOf(data) : \E k \in Range(GroupKeys[g]) : k \notin DOMAIN data.items[g].items
HoldsNonNumber(data) ==
    \E g \in GroupsOf(data) :
        \E k \in Range(GroupKeys[g]) \cap DOMAIN data.items[g].items :
            data.items[g].items[k].t # "num"
HasAllNine(data) ==
    /\ data.t = "dict"
    /\ GroupsOf(data) = GroupNames
    /\ ~LacksKey(data) /\ ~HoldsNonNumber(data)

Loaded == loads(ret.arg.s)
FromJsonParsed == ret.op = "from_json" /\ Parses(ret.arg.s)

\* C3: from_json of a parsed document that lacks a group, lacks a key of a
\* group, or holds a non-number for a key returns None and raises nothing.
SchemaRejection ==
    (/\ FromJsonParsed
     /\ Loaded.t = "dict"
     /\ LacksGroup(Loaded) \/ LacksKey(Loaded) \/ HoldsNonNumber(Loaded)) =>
        ret.exc = "" /\ ret.value = None

SchemaRejectionWitness ==
    /\ FromJsonParsed
    /\ Loaded.t = "dict"
    /\ ~LacksGroup(Loaded) /\ ~HoldsNonNumber(Loaded) /\ LacksKey(Loaded)
    /\ "wire_height" \notin DOMAIN Loaded.items["wire"].items
    /\ ret.exc = "" /\ ret.value = None

\* C4 as claimed: from_json of a document with the nine numeric keys in their
\* four groups returns an instance built from those nine values, whatever
\* other keys the document holds and whatever the sign of the values.
ExtraKeysAccepted ==
    (FromJsonParsed /\ HasAllNine(Loaded)) =>
        /\ ret.exc = ""
        /\ IsQubit(ret.value)
        /\ \A g \in GroupNames : \A k \in Range(GroupKeys[g]) :
              ret.value[k] = Loaded.items[g].items[k]

\* A file from_json_file cannot read a document from.
NoDocument(file) == file.f # "file" \/ ~Parses(file.content)

\* C2 as claimed: from_json_file of a missing, unreadable or malformed file
\* returns None and raises nothing.
NeverPropagates ==
    [][(/\ ret'.op = "from_json_file"
        /\ fs' = fs
        /\ NoDocument(fs[ret'.arg.s])) =>
            (ret'.exc = "" /\ ret'.value = None)]_vars

\* C9 as claimed: serialize(filename) writes the file and returns a string,
\* and from_json_file of that file name right after it returns an instance.
SerializeThenRead ==
    [][/\ ret'.op = "serialize" =>
            /\ ret'.exc = ""
            /\ ret'.value.t = "str"
            /\ fs'[ret'.arg.s].f = "file"
       /\ (ret.op = "serialize" /\ ret'.op = "from_json_file" /\ ret'.arg = ret.arg) =>
            (ret'.exc = "" /\ IsQubit(ret'.value))]_vars

(***************************************************************************)
(* The union test of test_polygon_no_gaps: two primitives join into one    *)
(* region when they share area or a stretch of boundary (a single common   *)
(* point joins nothing).                                                   *)
(***************************************************************************)
Box(r) ==
    [x1 |-> Min(r.p1[1], r.p2[1]), x2 |-> Max(r.p1[1], r.p2[1]),
     y1 |-> Min(r.p1[2], r.p2[2]), y2 |-> Max(r.p1[2], r.p2[2])]

\* The distance from c to the interval [lo, hi].
Gap(c, lo, hi) == IF c < lo THEN lo - c ELSE IF c > hi THEN c - hi ELSE 0

Joined(a, b) ==
    CASE a.shape = "Rectangle" /\ b.shape = "Rectangle" ->
            LET xo == Min(Box(a).x2, Box(b).x2) - Max(Box(a).x1, Box(b).x1)
                yo == Min(Box(a).y2, Box(b).y2) - Max(Box(a).y1, Box(b).y1)
            IN  xo >= 0 /\ yo >= 0 /\ (xo > 0 \/ yo > 0)
      [] a.shape = "Round" /\ b.shape = "Round" ->
            LET dx == a.p1[1] - b.p1[1]
                dy == a.p1[2] - b.p1[2]
                rr == a.radius + b.radius
            IN  dx * dx + dy * dy < rr * rr
      [] OTHER ->
            LET c == IF a.shape = "Round" THEN a ELSE b
                r == Box(IF a.shape = "Round" THEN b ELSE a)
                dx == Gap(c.p1[1], r.x1, r.x2)
                dy == Gap(c.p1[2], r.y1, r.y2)
            IN  c.radius > 0 /\ dx * dx + dy * dy < c.radius * c.radius

\* The primitives reached from those of `seen` through joins.
RECURSIVE Reach(_, _)
Reach(polys, seen) ==
    LET more == {i \in DOMAIN polys : \E k \in seen : Joined(polys[i], polys[k])}
    IN  IF more \subseteq seen THEN seen ELSE Reach(polys, seen \cup more)

OneRegion(polys) == polys # <<>> /\ Reach(polys, {1}) = DOMAIN polys

(***************************************************************************)
(* Properties of the drawn figure.                                         *)
(***************************************************************************)
Drawn == q.layout # None
Shapes == CellPolygonsets(q.layout)
ConfiguredLayers == {q.wire_layer, q.junction_layer, q.connection_layer}

\* C6: the layers of the drawn figure's primitives are exactly the three
\* configured layers of the instance: none is missing, no other appears.
LayerSetExact == Drawn => CellLayers(q.layout) = ConfiguredLayers

LayerSetWitness == Drawn /\ Cardinality(CellLayers(q.layout)) = 3

PositiveDims ==
    \A f \in {"connection_radius", "junction_width", "junction_height",
               "wire_width", "wire_height"} : q[f].tenths > 0

OffsetInRange ==
    /\ q.junction_offset.tenths > 0
    /\ 2 * q.junction_offset.tenths <= q.junction_width.tenths

\* C7: with positive dimensions and 0 < junction_offset <= junction_width / 2
\* the five primitives form one region: each wire rectangle is joined to the
\* junction, each circle to its wire rectangle.
NoGaps ==
    (Drawn /\ PositiveDims /\ OffsetInRange) =>
        /\ Len(Shapes) = 5
        /\ OneRegion(Shapes)
        /\ Joined(Shapes[1], Shapes[3]) /\ Joined(Shapes[3], Shapes[2])
        /\ Joined(Shapes[1], Shapes[5]) /\ Joined(Shapes[5], Shapes[4])

NoGapsWitness ==
    /\ Drawn /\ PositiveDims /\ OffsetInRange
    /\ 2 * q.junction_offset.tenths = q.junction_width.tenths
    /\ q.wire_width.tenths < q.junction_offset.tenths

\* C8 as claimed: whatever the three layers, a primitive on connection_layer
\* is a circle and a primitive on junction_layer or wire_layer a rectangle.
ShapeByLayer ==
    \A i \in DOMAIN Shapes :
        /\ Shapes[i].layer = q.connection_layer => Shapes[i].shape = "Round"
        /\ Shapes[i].layer \in {q.junction_layer, q.wire_layer}
              => Shapes[i].shape = "Rectangle"

ShapeByLayerAnyLayers == Drawn => ShapeByLayer

\* C8 amended: when connection_layer differs from wire_layer and from
\* junction_layer, a primitive on connection_layer is a circle and a
\* primitive on junction_layer or wire_layer is a rectangle.
ShapeByLayerDistinct ==
    (Drawn /\ q.connection_layer \notin {q.wire_layer, q.junction_layer}) => ShapeByLayer

ShapeByLayerWitness ==
    /\ Drawn
    /\ q.connection_layer \notin {q.wire_layer, q.junction_layer}
    /\ q.wire_layer = q.junction_layer
    /\ \E i \in DOMAIN Shapes : Shapes[i].layer = q.connection_layer

(***************************************************************************)
(* Properties of the cache.                                                *)
(***************************************************************************)
ReadingOps == {"to_gds", "to_svg", "get_polygonsets"}

\* C5: to_gds, to_svg and get_polygonsets draw exactly when nothing was drawn
\* before; once drawn they leave layout and gds_library as they are; and the
\* layout they use is the CIRCUIT cell of the cached library.
CacheThenReuse ==
    [][ret'.op \in ReadingOps =>
          /\ (next_id' # next_id) <=> (next_id = 0)
          /\ next_id # 0 => (q'.layout = q.layout /\ q'.gds_library = q.gds_library)
          /\ q'.layout # None
          /\ q'.layout = q'.gds_library.cells["CIRCUIT"]]_vars

CacheThenReuseWitness ==
    /\ ret.op = "to_gds"
    /\ fs["output.svg"].f = "file"
    /\ next_id = 3

\* The primitives one draw of a new instance with the same fields gives.
SingleDraw == CellPolygonsets(draw(SimpleQubit_init(q), 0).layout)

NoAccumulationState ==
    Drawn =>
        /\ Len(Shapes) = 5
        /\ Shapes = SingleDraw
        /\ DOMAIN q.gds_library.cells = {"CIRCUIT", "WIRE_CONNECTION"}
        /\ q.gds_library.cells["CIRCUIT"] = q.layout
        /\ q.gds_library.cells["WIRE_CONNECTION"] = q.layout.references[1].ref_cell

NoAccumulationStep ==
    /\ \A f \in Params : q'[f] = q[f]
    /\ ret'.op = "draw" =>
          /\ q'.layout.id >= next_id /\ q'.gds_library.id >= next_id
          /\ q.layout # None => q'.layout.id # q.layout.id
          /\ q.gds_library # None => q'.gds_library.id # q.gds_library.id

\* C10: draws do not accumulate.  After every call the cached figure has the
\* five primitives one draw of a new instance with the same fields gives, and
\* the library has exactly its two cells; a draw puts a new library and a new
\* layout in the cache; no call changes any of the nine fields.
NoAccumulation == []NoAccumulationState /\ [][NoAccumulationStep]_vars

NoAccumulationWitness == ret.op = "draw" /\ next_id = 3 * MaxDraws /\ fs["output.gds"].f = "file"
====
